---- MODULE Spec2Model ----
(***************************************************************************)
(* A model of cmd_line_agenda.py: the Agenda store (a date -> task-list    *)
(* dictionary with its cached earliest_date / farthest_date), its text     *)
(* file, and the command-line controller that drives it.                   *)
(*                                                                         *)
(* A date is the number of days since 2025-01-01 in the proleptic          *)
(* Gregorian calendar (date + timedelta(1) is d + 1; earlier dates are     *)
(* negative).  Python strings are strings, read character by               *)
(* character with Len, Head, Tail and SubSeq.  The agenda dictionary is a  *)
(* function from its keys to their task lists; the order in which a dict   *)
(* yields its keys is read by save alone, and the model writes the day     *)
(* blocks by date (loading day blocks of distinct dates does not depend    *)
(* on their order).  What the view prints is not modelled.                 *)
(***************************************************************************)
EXTENDS Integers, Sequences, FiniteSets, TLC

VARIABLES
    agenda,         \* Agenda.agenda: day -> list of <<description, status>>
    farthest_date,  \* Agenda.farthest_date
    earliest_date,  \* Agenda.earliest_date
    today,          \* the value date.today() returns
    cur_menu,       \* AgendaCommandLineController.cur_menu
    settings_list,  \* AgendaCommandLineController.settings_list
    agenda_file,    \* the file at AGENDA_PATH
    settings_file,  \* the file at SETTINGS_PATH
    pc              \* where go() is: "main", "settings", "confirm", "quit", "crashed"

agenda_vars == <<agenda, farthest_date, earliest_date>>

controller_vars == <<cur_menu, settings_list, agenda_file, settings_file, pc>>

vars == <<agenda, farthest_date, earliest_date, today,
          cur_menu, settings_list, agenda_file, settings_file, pc>>

-----------------------------------------------------------------------------
(* Bounds of the model *)

\* the operations are given the days 0 .. MaxDay
MaxDay == 4
\* the last year of the calendar (datetime.MAXYEAR), brought near to today so
\* that the days up to date.max can be stored
MaxYear == 2026
\* the day on which the program is started
FirstToday == 2
\* the clock advances up to this day
MaxClock == 4
\* no task is added once the agenda holds this many tasks
MaxTasks == 2

Days == 0 .. MaxDay

\* TaskStatus
NOT_STARTED == "NOT_STARTED"
IN_PROGRESS == "IN_PROGRESS"
DONE == "DONE"
TaskStatus == {NOT_STARTED, IN_PROGRESS, DONE}

\* descriptions given to the operations: no word, and two words
Descriptions == {"", "x y"}

\* task indices given to the operations (some out of range)
Indices == -1 .. MaxTasks

Task(description, status) == <<description, status>>

-----------------------------------------------------------------------------
(* Python built-ins *)

\* dict: {}
EmptyDict == [day \in {} |-> <<>>]

\* dict: the set of keys
Keys(a) == DOMAIN a

\* dict: key in d
HasDay(a, day) == day \in Keys(a)

\* dict: d[key]
TasksOf(a, day) == a[day]

\* dict: d[key] = value
SetDay(a, day, tasks) == [d \in Keys(a) \cup {day} |-> IF d = day THEN tasks ELSE a[d]]

\* a list.remove that deletes the first element whatever x is
ListRemoveHead(l, x) == Tail(l)

\* list.remove(x): deletes the first element equal to x
ListRemove(l, x) ==
    LET i == CHOOSE j \in DOMAIN l : l[j] = x /\ \A k \in 1 .. j - 1 : l[k] # x
    IN  SubSeq(l, 1, i - 1) \o SubSeq(l, i + 1, Len(l))

\* an assignment that writes the first element whatever i is
ListSetFirst(l, i, x) == [l EXCEPT ![1] = x]

\* l[i] = x for a Python index i >= 0
ListSet(l, i, x) == [l EXCEPT ![i + 1] = x]

\* l[i] for a Python index i >= 0
ListGet(l, i) == l[i + 1]

\* the characters str.strip and str.split() take for white space
IsSpace(c) == c = " " \/ c = "\n"

\* s[i] for a Python index i >= 0
CharAt(s, i) == SubSeq(s, i + 1, i + 1)

\* str.lstrip
RECURSIVE LStrip(_)
LStrip(s) == IF s # "" /\ IsSpace(Head(s)) THEN LStrip(Tail(s)) ELSE s

\* str.rstrip
RECURSIVE RStrip(_)
RStrip(s) ==
    IF s # "" /\ IsSpace(CharAt(s, Len(s) - 1)) THEN RStrip(SubSeq(s, 1, Len(s) - 1)) ELSE s

\* str.strip
StrStrip(s) == RStrip(LStrip(s))

\* where sep first occurs in s (1-based), 0 when it does not
StrFind(s, sep) ==
    LET at == {i \in 1 .. Len(s) - Len(sep) + 1 : SubSeq(s, i, i + Len(sep) - 1) = sep}
    IN  IF at = {} THEN 0 ELSE CHOOSE i \in at : \A j \in at : i <= j

\* sep in s
StrContains(s, sep) == StrFind(s, sep) # 0

\* str.split(sep)
RECURSIVE StrSplit(_, _)
StrSplit(s, sep) ==
    LET i == StrFind(s, sep)
    IN  IF i = 0
          THEN <<s>>
          ELSE <<SubSeq(s, 1, i - 1)>> \o StrSplit(SubSeq(s, i + Len(sep), Len(s)), sep)

\* str.split(): the words between runs of white space
RECURSIVE StrWords(_)
StrWords(s) ==
    IF s = ""
      THEN <<>>
      ELSE IF IsSpace(Head(s))
             THEN StrWords(Tail(s))
             ELSE LET stops == {i \in 1 .. Len(s) : IsSpace(SubSeq(s, i, i))}
                      n == IF stops = {} THEN Len(s)
                           ELSE (CHOOSE i \in stops : \A j \in stops : i <= j) - 1
                  IN  <<SubSeq(s, 1, n)>> \o StrWords(SubSeq(s, n + 1, Len(s)))

\* sep.join(words)
RECURSIVE StrJoin(_, _)
StrJoin(sep, words) ==
    IF words = <<>>
      THEN ""
      ELSE IF Len(words) = 1
             THEN words[1]
             ELSE words[1] \o sep \o StrJoin(sep, Tail(words))

IsDigitChar(c) == c \in {"0", "1", "2", "3", "4", "5", "6", "7", "8", "9"}

\* str.isdigit
IsDigit(s) == s # "" /\ \A i \in 1 .. Len(s) : IsDigitChar(SubSeq(s, i, i))

DigitValue(c) == CHOOSE n \in 0 .. 9 : ToString(n) = c

\* the number a string of digits writes
RECURSIVE DigitsValue(_)
DigitsValue(s) ==
    IF s = "" THEN 0
    ELSE 10 * DigitsValue(SubSeq(s, 1, Len(s) - 1)) + DigitValue(CharAt(s, Len(s) - 1))

\* the digits of an int literal: digits, with single underscores between them
IsIntDigits(s) ==
    /\ s # ""
    /\ IsDigitChar(Head(s))
    /\ IsDigitChar(CharAt(s, Len(s) - 1))
    /\ \A i \in 1 .. Len(s) : IsDigitChar(SubSeq(s, i, i)) \/ SubSeq(s, i, i) = "_"
    /\ ~StrContains(s, "__")

\* int(s): TRUE when it raises (s has no white space)
IntRaises(s) ==
    IF s # "" /\ Head(s) \in {"+", "-"} THEN ~IsIntDigits(Tail(s)) ELSE ~IsIntDigits(s)

\* int(s)
IntOf(s) ==
    LET digits(t) == StrJoin("", StrSplit(t, "_"))
    IN  IF Head(s) = "-" THEN 0 - DigitsValue(digits(Tail(s)))
        ELSE IF Head(s) = "+" THEN DigitsValue(digits(Tail(s)))
        ELSE DigitsValue(digits(s))

\* str(n) for an int n
StrOfInt(n) == IF n < 0 THEN "-" \o ToString(0 - n) ELSE ToString(n)

-----------------------------------------------------------------------------
(* datetime.date *)

DaysInMonth == <<31, 28, 31, 30, 31, 30, 31, 31, 30, 31, 30, 31>>

RECURSIVE DaysBeforeMonth(_)
DaysBeforeMonth(m) == IF m = 1 THEN 0 ELSE DaysBeforeMonth(m - 1) + DaysInMonth[m - 1]

\* a leap year
IsLeap(y) == y % 4 = 0 /\ (y % 100 # 0 \/ y % 400 = 0)

\* the days of month m of year y
DaysInMonthOf(y, m) == IF m = 2 /\ IsLeap(y) THEN 29 ELSE DaysInMonth[m]

\* the days from 0001-01-01 to the first day of year y
DaysBeforeYear(y) == (y - 1) * 365 + ((y - 1) \div 4) - ((y - 1) \div 100) + ((y - 1) \div 400)

\* date(y, m, d) as a day number
DateOf(y, m, d) ==
    DaysBeforeYear(y) - DaysBeforeYear(2025) + DaysBeforeMonth(m)
      + (IF m > 2 /\ IsLeap(y) THEN 1 ELSE 0) + d - 1

\* date.year: no year is eight years shorter than as many years of 365 days
YearOf(day) ==
    CHOOSE y \in ((day + DaysBeforeYear(2025)) \div 365) - 6
                   .. ((day + DaysBeforeYear(2025)) \div 365) + 1 :
      DateOf(y, 1, 1) <= day /\ day < DateOf(y + 1, 1, 1)

\* the month of year y that the day is in
MonthIn(y, day) ==
    CHOOSE m \in 1 .. 12 :
      DateOf(y, m, 1) <= day /\ day < DateOf(y, m, 1) + DaysInMonthOf(y, m)

\* date.month
MonthOf(day) == MonthIn(YearOf(day), day)

\* date.day
DayOfMonth(day) == day - DateOf(YearOf(day), MonthOf(day), 1) + 1

\* a number in at least n digits
RECURSIVE ZeroPad(_, _)
ZeroPad(s, n) == IF Len(s) < n THEN ZeroPad("0" \o s, n) ELSE s

\* date.min and date.max
DateMin == DateOf(1, 1, 1)

DateMax == DateOf(MaxYear, 12, 31)

\* date.isoformat: YYYY-MM-DD
IsoFormat(day) ==
    ZeroPad(ToString(YearOf(day)), 4) \o "-" \o ZeroPad(ToString(MonthOf(day)), 2)
      \o "-" \o ZeroPad(ToString(DayOfMonth(day)), 2)

\* date.fromisoformat: TRUE when it raises
FromIsoFormatRaises(s) ==
    \/ Len(s) # 10
    \/ CharAt(s, 4) # "-"
    \/ CharAt(s, 7) # "-"
    \/ ~IsDigit(SubSeq(s, 1, 4))
    \/ ~IsDigit(SubSeq(s, 6, 7))
    \/ ~IsDigit(SubSeq(s, 9, 10))
    \/ DigitsValue(SubSeq(s, 1, 4)) \notin 1 .. MaxYear
    \/ DigitsValue(SubSeq(s, 6, 7)) \notin 1 .. 12
    \/ DigitsValue(SubSeq(s, 9, 10))
         \notin 1 .. DaysInMonthOf(DigitsValue(SubSeq(s, 1, 4)), DigitsValue(SubSeq(s, 6, 7)))

\* date.fromisoformat
FromIsoFormat(s) ==
    DateOf(DigitsValue(SubSeq(s, 1, 4)), DigitsValue(SubSeq(s, 6, 7)),
           DigitsValue(SubSeq(s, 9, 10)))

-----------------------------------------------------------------------------
(* class Agenda.  An object is the record of its fields; a method returns  *)
(* [exc, self, ret]: whether it raised, the object as it left it, and the  *)
(* value returned.                                                         *)

Obj(a, far, early) == [agenda |-> a, farthest_date |-> far, earliest_date |-> early]

Returned(self, ret) == [exc |-> FALSE, self |-> self, ret |-> ret]

Raised(self) == [exc |-> TRUE, self |-> self, ret |-> <<>>]

\* r, and the statements K that follow it when it did not raise
Then(r, K(_)) == IF r.exc THEN r ELSE K(r.self)

\* a loop of _add_days that goes over the days first and last only
AddDaysLoopEnds(a, first, last) ==
    [d \in Keys(a) \cup {first, last} |-> IF HasDay(a, d) THEN a[d] ELSE <<>>]

\* a loop of _add_days that gives every day first .. last an empty list
AddDaysLoopClears(a, first, last) ==
    [d \in Keys(a) \cup (first .. last) |-> IF d \in first .. last THEN <<>> ELSE a[d]]

\* the loop of _add_days over the days first .. last: each day that is not
\* stored is given an empty list
AddDaysLoop(a, first, last) ==
    [d \in Keys(a) \cup (first .. last) |-> IF HasDay(a, d) THEN a[d] ELSE <<>>]

\* an _add_days that adds the last day only
AddDaysOnlyLast(self, from_day, to_day) ==
    IF ~(to_day >= from_day)
      THEN Raised(self)
      ELSE Returned([self EXCEPT !.agenda = AddDaysLoop(self.agenda, to_day, to_day)], <<>>)

\* Agenda._add_days; once date.max has been added, day_date += timedelta(1)
\* raises OverflowError
AddDays(self, from_day, to_day) ==
    IF ~(to_day >= from_day)
      THEN Raised(self)
      ELSE IF to_day >= DateMax
             THEN Raised([self EXCEPT !.agenda = AddDaysLoop(self.agenda, from_day, to_day)])
             ELSE Returned([self EXCEPT !.agenda = AddDaysLoop(self.agenda, from_day, to_day)],
                           <<>>)

\* Agenda.get_tasks
GetTasks(self, day) ==
    IF ~HasDay(self.agenda, day) THEN <<>> ELSE TasksOf(self.agenda, day)

\* a _check_not_duplicate that looks at the day's first task only
CheckFirstTaskOnly(self, day, description) ==
    /\ TasksOf(self.agenda, day) # <<>>
    /\ TasksOf(self.agenda, day)[1][1] = description

\* Agenda._check_not_duplicate: TRUE when it raises
CheckNotDuplicateRaises(self, day, description) ==
    \E i \in DOMAIN TasksOf(self.agenda, day) : TasksOf(self.agenda, day)[i][1] = description

\* a refresh_today_date whose second test is an elif of the first
RefreshElif(self, now) ==
    IF ~HasDay(self.agenda, now)
      THEN Returned([self EXCEPT !.agenda = SetDay(self.agenda, now, <<>>)], <<>>)
      ELSE IF self.farthest_date < now
             THEN Returned([self EXCEPT !.farthest_date = now], <<>>)
             ELSE Returned(self, <<>>)

\* a refresh_today_date that stores today and leaves farthest_date alone
RefreshKeepsFarthest(self, now) ==
    IF ~HasDay(self.agenda, now)
      THEN Returned([self EXCEPT !.agenda = SetDay(self.agenda, now, <<>>)], <<>>)
      ELSE Returned(self, <<>>)

\* Agenda.refresh_today_date
RefreshTodayDate(self, now) ==
    LET s1 == IF ~HasDay(self.agenda, now)
                THEN [self EXCEPT !.agenda = SetDay(self.agenda, now, <<>>)]
                ELSE self
    IN  IF s1.farthest_date < now
          THEN Returned([s1 EXCEPT !.farthest_date = now], <<>>)
          ELSE IF s1.farthest_date > now
                 THEN AddDays(s1, now, s1.farthest_date)
                 ELSE Returned(s1, <<>>)

\* Agenda.add_task
AddTask(self, now, day, description, status) ==
    LET s1 == IF ~HasDay(self.agenda, day)
                THEN [self EXCEPT !.agenda = SetDay(self.agenda, day, <<>>)]
                ELSE self
        s2 == [s1 EXCEPT !.agenda = SetDay(s1.agenda, day,
                             Append(TasksOf(s1.agenda, day), Task(description, status)))]
    IN  IF CheckNotDuplicateRaises(s1, day, description)
          THEN Raised(s1)
          ELSE IF day > s2.farthest_date
                 THEN LET r == AddDays(s2, s2.farthest_date, day)
                      IN  IF r.exc
                            THEN r
                            ELSE RefreshTodayDate([r.self EXCEPT !.farthest_date = day], now)
                 ELSE IF day < s2.earliest_date
                        THEN RefreshTodayDate([s2 EXCEPT !.earliest_date = day], now)
                        ELSE RefreshTodayDate(s2, now)

\* a remove_task that moves earliest_date on when the earliest day is emptied
RemoveTaskShrinks(self, day, task_index) ==
    IF ~HasDay(self.agenda, day)
      THEN Raised(self)
      ELSE IF ~(task_index >= 0 /\ task_index < Len(TasksOf(self.agenda, day)))
             THEN Raised(self)
             ELSE LET old == ListGet(TasksOf(self.agenda, day), task_index)
                  IN  Returned([self EXCEPT !.agenda =
                                   SetDay(self.agenda, day,
                                          ListRemove(TasksOf(self.agenda, day), old)),
                                            !.earliest_date =
                                   IF day = @ /\ day < self.farthest_date
                                        /\ Len(TasksOf(self.agenda, day)) = 1
                                     THEN @ + 1
                                     ELSE @],
                               old)

\* Agenda.remove_task
RemoveTask(self, day, task_index) ==
    IF ~HasDay(self.agenda, day)
      THEN Raised(self)
      ELSE IF ~(task_index >= 0 /\ task_index < Len(TasksOf(self.agenda, day)))
             THEN Raised(self)
             ELSE LET old == ListGet(TasksOf(self.agenda, day), task_index)
                  IN  Returned([self EXCEPT !.agenda =
                                   SetDay(self.agenda, day,
                                          ListRemove(TasksOf(self.agenda, day), old))],
                               old)

\* Agenda.modify_task
ModifyTask(self, day, task_index, new_description) ==
    IF ~HasDay(self.agenda, day)
      THEN Raised(self)
      ELSE IF ~(task_index >= 0 /\ task_index < Len(TasksOf(self.agenda, day)))
             THEN Raised(self)
             ELSE IF CheckNotDuplicateRaises(self, day, new_description)
                    THEN Raised(self)
                    ELSE LET cur == ListGet(TasksOf(self.agenda, day), task_index)
                         IN  Returned([self EXCEPT !.agenda =
                                          SetDay(self.agenda, day,
                                                 ListSet(TasksOf(self.agenda, day), task_index,
                                                         Task(new_description, cur[2])))],
                                      <<cur[1]>>)

\* Agenda.update_task_status
UpdateTaskStatus(self, day, task_index, new_status) ==
    IF ~HasDay(self.agenda, day)
      THEN Raised(self)
      ELSE IF ~(task_index >= 0 /\ task_index < Len(TasksOf(self.agenda, day)))
             THEN Raised(self)
             ELSE LET cur == ListGet(TasksOf(self.agenda, day), task_index)
                  IN  Returned([self EXCEPT !.agenda =
                                   SetDay(self.agenda, day,
                                          ListSet(TasksOf(self.agenda, day), task_index,
                                                  Task(cur[1], new_status)))],
                               <<cur[2]>>)

\* Agenda.get_latest_date
GetLatestDate(self) == self.farthest_date

\* Agenda.get_earliest_date
GetEarliestDate(self) == self.earliest_date

-----------------------------------------------------------------------------
(* The agenda file.  A file is [exists, text].                             *)

NoFile == [exists |-> FALSE, text |-> ""]

TextFile(text) == [exists |-> TRUE, text |-> text]

\* a task line that leaves the status out
TaskLineNoStatus(task) == task[1] \o "\n"

\* the line save writes for one task: status.value + ' ' + task + '\n'
TaskLine(task) == task[2] \o " " \o task[1] \o "\n"

RECURSIVE TaskLines(_)
TaskLines(tasks) ==
    IF tasks = <<>> THEN "" ELSE TaskLine(Head(tasks)) \o TaskLines(Tail(tasks))

\* the loop of Agenda.save: agenda_string
RECURSIVE SaveLoop(_, _)
SaveLoop(a, left) ==
    IF left = {}
      THEN ""
      ELSE LET day_date == CHOOSE d \in left : \A e \in left : d <= e
           IN  IsoFormat(day_date) \o "\n" \o TaskLines(a[day_date]) \o "\n"
               \o SaveLoop(a, left \ {day_date})

\* Agenda.save: the file it writes
Save(self) == TextFile(StrStrip(SaveLoop(self.agenda, Keys(self.agenda))))

\* one task line of a day block: TRUE when reading it raises
TaskLineRaises(task) ==
    LET task_tokenized == StrWords(task)
    IN  task_tokenized = <<>> \/ Head(task_tokenized) \notin TaskStatus

\* one task line of a day block: the task appended
ParseTask(task) ==
    LET task_tokenized == StrWords(task)
    IN  Task(StrJoin(" ", Tail(task_tokenized)), Head(task_tokenized))

\* Agenda.__init__, one day block: the task lines are read up to the first
\* that raises
LoadTasks(self, day_date, lines) ==
    LET bad == {j \in DOMAIN lines : TaskLineRaises(lines[j])}
        upto == IF bad = {} THEN Len(lines)
                ELSE (CHOOSE j \in bad : \A k \in bad : j <= k) - 1
        s1 == [self EXCEPT !.agenda =
                  SetDay(self.agenda, day_date, [j \in 1 .. upto |-> ParseTask(lines[j])])]
    IN  IF bad # {}
          THEN Raised(s1)
          ELSE Returned([s1 EXCEPT
                           !.farthest_date = IF day_date > @ THEN day_date ELSE @,
                           !.earliest_date = IF day_date < @ THEN day_date ELSE @], <<>>)

\* Agenda.__init__, one day block split into its lines
LoadDay(self, split_into_tasks) ==
    IF Len(split_into_tasks) = 1
      THEN Returned(self, <<>>)
      ELSE IF FromIsoFormatRaises(split_into_tasks[1])
             THEN Raised(self)
             ELSE LoadTasks(self, FromIsoFormat(split_into_tasks[1]), Tail(split_into_tasks))

\* the loop of Agenda.__init__ over the day blocks of the file
RECURSIVE LoadLoop(_, _, _)
LoadLoop(self, split_into_days, i) ==
    IF i > Len(split_into_days)
      THEN Returned(self, <<>>)
      ELSE Then(LoadDay(self, StrSplit(split_into_days[i], "\n")),
                LAMBDA s : LoadLoop(s, split_into_days, i + 1))

\* Agenda.__init__(file_path)
AgendaInit(file, now) ==
    IF ~file.exists
      THEN Returned(Obj(SetDay(EmptyDict, now, <<>>), now, now), <<>>)
      ELSE Then(LoadLoop(Obj(EmptyDict, now, now), StrSplit(StrStrip(file.text), "\n\n"), 1),
                LAMBDA s : AddDays(s, now, s.farthest_date))

-----------------------------------------------------------------------------
(* The agenda files the program is started on *)

\* a day block of a file: the date line and the task lines
DayBlock(day, tasks) == IsoFormat(day) \o "\n" \o TaskLines(tasks)

FileTaskLists ==
    { <<>>,
      <<Task("x y", NOT_STARTED)>>,
      <<Task("", DONE)>> }

FileDays == {0, FirstToday, MaxDay}

\* no file, the files of one day block, and files of two day blocks
InitFiles ==
    {NoFile}
    \cup {TextFile(DayBlock(d, l)) : d \in FileDays, l \in FileTaskLists}
    \cup {TextFile(DayBlock(0, <<Task("x y", NOT_STARTED)>>) \o "\n"
                   \o DayBlock(MaxDay, l)) : l \in FileTaskLists}
    \cup {TextFile(DayBlock(MaxDay, <<Task("", IN_PROGRESS)>>) \o "\n"
                   \o DayBlock(FirstToday, l)) : l \in FileTaskLists}

\* hand-edited files in which a day holds the same task twice
DuplicateFiles ==
    {TextFile(DayBlock(d, <<Task("x y", DONE), Task("", IN_PROGRESS),
                            Task("x y", DONE)>>)) : d \in {0, FirstToday}}

-----------------------------------------------------------------------------
(* class AgendaCommandLineInterface: what its print functions do to the    *)
(* agenda, and whether they raise.                                         *)

\* print_upcoming_days
PrintUpcomingDays(self, now, limit_number_shown) ==
    Then(RefreshTodayDate(self, now),
         LAMBDA s : IF limit_number_shown > 0 /\ now + limit_number_shown > DateMax
                      THEN Raised(s)
                      ELSE Returned(s, <<>>))

\* print_past_days
PrintPastDays(self, now) == RefreshTodayDate(self, now)

\* print_overdue
PrintOverdue(self, now) == RefreshTodayDate(self, now)

\* print_agenda
PrintAgenda(self, now, limit_number_shown) ==
    Then(PrintUpcomingDays(self, now, limit_number_shown), LAMBDA s : PrintOverdue(s, now))

-----------------------------------------------------------------------------
(* class AgendaCommandLineController.  The controller is the record of its *)
(* fields and of the two files; a settings value is [kind, n], a Python    *)
(* bool being the int 0 or 1 of kind "bool".                               *)

MAIN == "MAIN"
SETTINGS == "SETTINGS"

PyBool(b) == [kind |-> "bool", n |-> IF b THEN 1 ELSE 0]

PyInt(n) == [kind |-> "int", n |-> n]

\* the truth value of a settings value
Truthy(v) == v.n # 0

\* a str that writes a boolean as 1 or 0
StrOfNumber(v) == StrOfInt(v.n)

\* str(v) of a settings value
StrOf(v) ==
    IF v.kind = "bool" THEN (IF v.n = 1 THEN "True" ELSE "False") ELSE StrOfInt(v.n)

\* self.commands
Commands == {"vu", "vp", "vl", "help", "s", "a", "r", "m", "u", "o"}

\* self.settings_commands: the index and whether the setting takes an argument
SettingsCommands ==
    [k \in {"0", "1", "2", "3", "4", "5", "6"} |->
        [index |-> DigitValue(k), needs_argument |-> (k = "3")]]

\* a validator that takes whatever int() takes
IsValidLimitSigned(x) == ~IntRaises(x)

\* the validator of setting 3: x.isdigit() and int(x) >= 0
IsValidLimit(x) == IsDigit(x) /\ IntOf(x) >= 0

\* self.settings_names
SettingsNames ==
    << "random setting",
       "show weekday names",
       "show number of days from today",
       "max number of upcoming days displayed (0 = no limit)",
       "show past days in reverse order",
       "show upcoming days in reverse order",
       "autosave all changes" >>

\* self.settings_defaults
SettingsDefaults ==
    << PyBool(FALSE), PyBool(FALSE), PyBool(FALSE), PyInt(0),
       PyBool(FALSE), PyBool(FALSE), PyBool(FALSE) >>

Ctl(self, menu, settings, afile, sfile) ==
    [self |-> self, cur_menu |-> menu, settings_list |-> settings,
     agenda_file |-> afile, settings_file |-> sfile]

\* settings_list[i] for a Python index i
Setting(c, i) == c.settings_list[i + 1]

\* a controller method that does what the Agenda or view method r did
Lifted(c, r) == [r EXCEPT !.self = [c EXCEPT !.self = r.self]]

\* _reset_all_settings
ResetAllSettings(c) == [c EXCEPT !.settings_list = SettingsDefaults]

\* view_agenda
ViewAgenda(c, now) == Lifted(c, PrintAgenda(c.self, now, Setting(c, 3).n))

\* view_upcoming
ViewUpcoming(c, now) == Lifted(c, PrintUpcomingDays(c.self, now, 0))

\* view_past
ViewPast(c, now) == Lifted(c, PrintPastDays(c.self, now))

\* view_overdue
ViewOverdue(c, now) == Lifted(c, PrintOverdue(c.self, now))

\* view_help
ViewHelp(c) == Returned(c, <<>>)

\* save_agenda
SaveAgenda(c) == Returned([c EXCEPT !.agenda_file = Save(c.self)], <<>>)

\* a _handle_autosaving that saves whatever the setting is
AutosaveAlways(c) == SaveAgenda(c)

\* _handle_autosaving
HandleAutosaving(c) == IF Truthy(Setting(c, 6)) THEN SaveAgenda(c) ELSE Returned(c, <<>>)

\* a value returned, and an exception raised in its place
Value(v) == [exc |-> FALSE, ret |-> v]

NoValue == [exc |-> TRUE, ret |-> 0]

\* v, and the statements K that follow it when it did not raise
WithValue(v, c, K(_)) == IF v.exc THEN Raised(c) ELSE K(v.ret)

\* date.today() + timedelta(n)
PlusDays(now, n) == IF now + n < DateMin \/ now + n > DateMax THEN NoValue ELSE Value(now + n)

\* date.fromisoformat(s), raising or returning
FromIso(s) == IF FromIsoFormatRaises(s) THEN NoValue ELSE Value(FromIsoFormat(s))

\* _parse_date: the year inferred for a date written MM-DD
InferYear(month_day, year, now) ==
    IF FromIsoFormatRaises(ToString(year) \o "-" \o month_day)
      THEN NoValue
      ELSE IF FromIsoFormat(ToString(year) \o "-" \o month_day) < now
             THEN FromIso(ToString(year + 1) \o "-" \o month_day)
             ELSE FromIso(ToString(year) \o "-" \o month_day)

\* _parse_date: a date written with - between its parts
ParseSplitDate(date_string, date_split, now) ==
    IF Len(date_split) <= 1 \/ Len(date_split) > 3
      THEN NoValue
      ELSE IF Len(date_split) = 2
             THEN InferYear(IF Len(date_split[1]) = 1 \/ Len(date_split[2]) = 1
                              THEN StrJoin("-", [i \in 1 .. 2 |->
                                                   IF Len(date_split[i]) = 1
                                                     THEN "0" \o date_split[i]
                                                     ELSE date_split[i]])
                              ELSE date_string,
                            YearOf(now), now)
             ELSE FromIso(date_string)

\* _parse_date: a date written in full or as MM-DD, with - / or . between its parts
ParseWrittenDate(date_string, now) == ParseSplitDate(date_string, StrSplit(date_string, "-"), now)

\* _parse_date: [exc, ret]
ParseDate(date_string, now) ==
    IF date_string \in {"today", "now"}
      THEN Value(now)
      ELSE IF StrContains("tomorrow", date_string)
             THEN PlusDays(now, 1)
             ELSE IF StrContains(date_string, "+")
                    THEN IF IntRaises(StrSplit(date_string, "+")[2])
                           THEN NoValue
                           ELSE PlusDays(now, IntOf(StrSplit(date_string, "+")[2]))
                    ELSE ParseWrittenDate(
                           StrJoin("-", StrSplit(StrJoin("-", StrSplit(date_string, "/")), ".")),
                           now)

\* args[i:] for a Python index i
ArgsFrom(args, i) == SubSeq(args, i + 1, Len(args))

\* int(args[i]) for a Python index i: TRUE when it raises
IntArgRaises(args, i) == Len(args) < i + 1 \/ IntRaises(args[i + 1])

\* add_item
AddItem(c, now, args) ==
    IF Len(args) < 1
      THEN Raised(c)
      ELSE WithValue(ParseDate(args[1], now), c,
             LAMBDA day_date :
               Then(Lifted(c, AddTask(c.self, now, day_date, StrJoin(" ", ArgsFrom(args, 1)),
                                      NOT_STARTED)),
                    LAMBDA c1 : HandleAutosaving(c1)))

\* remove_item
RemoveItem(c, now, args) ==
    IF Len(args) < 1
      THEN Raised(c)
      ELSE WithValue(ParseDate(args[1], now), c,
             LAMBDA day_date :
               IF IntArgRaises(args, 1)
                 THEN Raised(c)
                 ELSE Then(Lifted(c, RemoveTask(c.self, day_date, IntOf(args[2]))),
                           LAMBDA c1 : HandleAutosaving(c1)))

\* update_description_item
UpdateDescriptionItem(c, now, args) ==
    IF Len(args) < 1
      THEN Raised(c)
      ELSE WithValue(ParseDate(args[1], now), c,
             LAMBDA day_date :
               IF IntArgRaises(args, 1)
                 THEN Raised(c)
                 ELSE Then(Lifted(c, ModifyTask(c.self, day_date, IntOf(args[2]),
                                                StrJoin(" ", ArgsFrom(args, 2)))),
                           LAMBDA c1 : HandleAutosaving(c1)))

\* a next_enum that sends DONE back to IN_PROGRESS
NextEnumNoWrap ==
    [s \in TaskStatus |-> IF s = NOT_STARTED THEN IN_PROGRESS ELSE IF s = IN_PROGRESS THEN DONE
                          ELSE IN_PROGRESS]

\* update_status_item: next_enum
NextEnum ==
    [s \in TaskStatus |-> IF s = NOT_STARTED THEN IN_PROGRESS ELSE IF s = IN_PROGRESS THEN DONE
                          ELSE NOT_STARTED]

\* l[i] for any Python index i: TRUE when it raises
PyIndexRaises(l, i) == ~(0 - Len(l) <= i /\ i < Len(l))

\* l[i] for any Python index i
PyIndex(l, i) == IF i < 0 THEN l[Len(l) + i + 1] ELSE l[i + 1]

\* update_status_item, from old_status on
UpdateStatusAt(c, day_date, index, tasks) ==
    IF PyIndexRaises(tasks, index)
      THEN Raised(c)
      ELSE Then(Lifted(c, UpdateTaskStatus(c.self, day_date, index,
                                           NextEnum[PyIndex(tasks, index)[2]])),
                LAMBDA c1 : HandleAutosaving(c1))

\* update_status_item
UpdateStatusItem(c, now, args) ==
    IF Len(args) < 1
      THEN Raised(c)
      ELSE WithValue(ParseDate(args[1], now), c,
             LAMBDA day_date :
               IF IntArgRaises(args, 1)
                 THEN Raised(c)
                 ELSE UpdateStatusAt(c, day_date, IntOf(args[2]), GetTasks(c.self, day_date)))

\* a view_settings that resets the settings it shows
ViewSettingsResets(c) == Returned([ResetAllSettings(c) EXCEPT !.cur_menu = SETTINGS], <<>>)

\* view_settings
ViewSettings(c) == Returned([c EXCEPT !.cur_menu = SETTINGS], <<>>)

\* settings_toggle_setting
SettingsToggleSetting(c, index) ==
    Returned([c EXCEPT !.settings_list[index + 1] = PyBool(~Truthy(Setting(c, index)))], <<>>)

\* settings_set_setting with the validator of setting 3
SettingsSetSetting(c, index, argument) ==
    IF ~IsValidLimit(argument)
      THEN Raised(c)
      ELSE Returned([c EXCEPT !.settings_list[index + 1] = PyInt(IntOf(argument))], <<>>)

RECURSIVE SettingsLines(_, _)
SettingsLines(settings, i) ==
    IF i > Len(SettingsNames)
      THEN ""
      ELSE SettingsNames[i] \o ": " \o StrOf(settings[i]) \o "\n" \o SettingsLines(settings, i + 1)

\* settings_save
SettingsSave(c) ==
    Returned([c EXCEPT !.settings_file = TextFile(SettingsLines(c.settings_list, 1))], <<>>)

\* f.readlines(): the lines of a text, each with its line end
RECURSIVE ReadLines(_)
ReadLines(text) ==
    IF text = ""
      THEN <<>>
      ELSE IF StrFind(text, "\n") = 0
             THEN <<text>>
             ELSE <<SubSeq(text, 1, StrFind(text, "\n"))>>
                    \o ReadLines(SubSeq(text, StrFind(text, "\n") + 1, Len(text)))

\* a loop body of _load_saved_settings that does not look at the name
SettingLineUnnamed(split, i) ==
    \/ Len(split) # 2
    \/ i >= Len(SettingsNames)
    \/ ~(split[2] = "True" \/ split[2] = "False" \/ IsDigit(split[2]))

\* _load_saved_settings: TRUE when the body of the loop raises on line i
\* (a Python index), split being lines[i].strip().split(": ")
SettingLineRaises(split, i) ==
    \/ Len(split) # 2
    \/ i >= Len(SettingsNames)
    \/ split[1] # SettingsNames[i + 1]
    \/ ~(split[2] = "True" \/ split[2] = "False" \/ IsDigit(split[2]))

\* _load_saved_settings: the value appended for the token setting
SettingValue(setting) ==
    IF setting = "True" THEN PyBool(TRUE)
    ELSE IF setting = "False" THEN PyBool(FALSE)
    ELSE PyInt(IntOf(setting))

\* _load_saved_settings: the loop over the lines, from the Python index i
RECURSIVE LoadSettingsLoop(_, _, _)
LoadSettingsLoop(c, lines, i) ==
    IF i >= Len(lines)
      THEN Returned(c, <<>>)
      ELSE IF SettingLineRaises(StrSplit(StrStrip(lines[i + 1]), ": "), i)
             THEN Raised(c)
             ELSE LoadSettingsLoop(
                    [c EXCEPT !.settings_list =
                       Append(c.settings_list,
                              SettingValue(StrSplit(StrStrip(lines[i + 1]), ": ")[2]))],
                    lines, i + 1)

\* _load_saved_settings: the defaults appended from the Python index i on
RECURSIVE AppendDefaults(_, _)
AppendDefaults(settings, i) ==
    IF i >= Len(SettingsDefaults)
      THEN settings
      ELSE AppendDefaults(Append(settings, SettingsDefaults[i + 1]), i + 1)

\* _load_saved_settings
LoadSavedSettings(c) ==
    Then(LoadSettingsLoop([c EXCEPT !.settings_list = <<>>], ReadLines(c.settings_file.text), 0),
         LAMBDA c1 : Returned([c1 EXCEPT !.settings_list =
                                  AppendDefaults(c1.settings_list, Len(c1.settings_list))],
                              <<>>))

-----------------------------------------------------------------------------
(* Module-level functions *)

\* date_range_inclusive: the loops, step being +1 or -1 day; date + timedelta
\* raises OverflowError outside date.min .. date.max
RECURSIVE DateRangeLoop(_, _, _)
DateRangeLoop(l, end_date, step) ==
    IF (step = 1 /\ l[Len(l)] < end_date) \/ (step = -1 /\ l[Len(l)] > end_date)
      THEN IF l[Len(l)] + step < DateMin \/ l[Len(l)] + step > DateMax
             THEN NoValue
             ELSE DateRangeLoop(Append(l, l[Len(l)] + step), end_date, step)
      ELSE Value(l)

\* a date_range_inclusive that only counts upwards
DateRangeAscending(start_date, end_date) == DateRangeLoop(<<start_date>>, end_date, 1)

\* date_range_inclusive
DateRangeInclusive(start_date, end_date) ==
    IF start_date <= end_date
      THEN DateRangeLoop(<<start_date>>, end_date, 1)
      ELSE DateRangeLoop(<<start_date>>, end_date, -1)
\* what one call of a menu handler did: the controller it left, the value
\* returned (user_quit), whether an exception escaped it, whether it is
\* asking for the quit confirmation, and whether it reported a caught
\* exception or an unknown command
Handled(c, ret, exc, confirm, error, invalid) ==
    [c |-> c, ret |-> ret, exc |-> exc, confirm |-> confirm, error |-> error,
     invalid |-> invalid]

\* self.commands[name](args)
RunCommand(c, now, name, args) ==
    CASE name = "vu" -> ViewUpcoming(c, now)
      [] name = "vp" -> ViewPast(c, now)
      [] name = "vl" -> ViewOverdue(c, now)
      [] name = "help" -> ViewHelp(c)
      [] name = "s" -> SaveAgenda(c)
      [] name = "a" -> AddItem(c, now, args)
      [] name = "r" -> RemoveItem(c, now, args)
      [] name = "m" -> UpdateDescriptionItem(c, now, args)
      [] name = "u" -> UpdateStatusItem(c, now, args)
      [] name = "o" -> ViewSettings(c)

\* a handler after the command r it ran in its try block
Tried(r) == Handled(r.self, FALSE, FALSE, FALSE, r.exc, FALSE)

\* a handler after the call r it made outside any try block
Untried(r, ret) == Handled(r.self, ret, r.exc, FALSE, FALSE, FALSE)

\* _handle_main_loop from command.split() on
MainCommand(c, now, command_list) ==
    IF command_list = <<>>
      THEN Handled(c, FALSE, TRUE, FALSE, FALSE, FALSE)
      ELSE IF command_list[1] \notin Commands
             THEN Handled(c, FALSE, FALSE, FALSE, FALSE, TRUE)
             ELSE Tried(RunCommand(c, now, command_list[1], Tail(command_list)))

\* _handle_main_loop, up to the quit confirmation
HandleMainLoop(c, now, command) ==
    IF command = ""
      THEN Untried(ViewAgenda(c, now), FALSE)
      ELSE IF command = "sq"
             THEN Untried(SaveAgenda(c), TRUE)
             ELSE IF command = "quit" \/ command = "q"
                    THEN Handled(c, FALSE, FALSE, TRUE, FALSE, FALSE)
                    ELSE MainCommand(c, now, StrWords(command))

\* _handle_main_loop, the quit confirmation: one answer read
QuitConfirmation(c, confirmation) ==
    IF confirmation \notin {"y", "n"}
      THEN Handled(c, FALSE, FALSE, TRUE, FALSE, FALSE)
      ELSE Handled(c, confirmation = "y", FALSE, FALSE, FALSE, FALSE)

\* _handle_settings_menu: the try block
SettingsCommand(c, command_list) ==
    IF SettingsCommands[command_list[1]].needs_argument
      THEN IF Len(command_list) < 2
             THEN Raised(c)
             ELSE SettingsSetSetting(c, SettingsCommands[command_list[1]].index, command_list[2])
      ELSE SettingsToggleSetting(c, SettingsCommands[command_list[1]].index)

\* _handle_settings_menu from command.split() on
SettingsMenuCommand(c, command_list) ==
    IF command_list = <<>>
      THEN Handled(c, FALSE, TRUE, FALSE, FALSE, FALSE)
      ELSE IF command_list[1] \notin DOMAIN SettingsCommands
             THEN Handled(c, FALSE, FALSE, FALSE, FALSE, TRUE)
             ELSE Tried(SettingsCommand(c, command_list))

\* a _handle_settings_menu that leaves the menu without settings_save
LeaveSettingsUnsaved(c, command) ==
    IF command = ""
      THEN Untried(Returned([c EXCEPT !.cur_menu = MAIN], <<>>), FALSE)
      ELSE SettingsMenuCommand(c, StrWords(command))

\* _handle_settings_menu
HandleSettingsMenu(c, command) ==
    IF command = ""
      THEN Untried(Then(SettingsSave(c),
                        LAMBDA c1 : Returned([c1 EXCEPT !.cur_menu = MAIN], <<>>)), FALSE)
      ELSE SettingsMenuCommand(c, StrWords(command))

\* AgendaCommandLineController.__init__ from line 712 on: the settings
AfterLoad(c, r) == IF r.exc THEN ResetAllSettings(c) ELSE r.self

\* AgendaCommandLineController.__init__
ControllerInit(self, afile, sfile) ==
    IF sfile.exists
      THEN AfterLoad(Ctl(self, MAIN, <<>>, afile, sfile),
                     LoadSavedSettings(Ctl(self, MAIN, <<>>, afile, sfile)))
      ELSE ResetAllSettings(Ctl(self, MAIN, <<>>, afile, sfile))

-----------------------------------------------------------------------------
(* The operations on an Agenda object, with the clock.  save and           *)
(* Agenda(file_path) are given a path of their own here, not AGENDA_PATH.  *)

Self == Obj(agenda, farthest_date, earliest_date)

Becomes(r) ==
    /\ agenda' = r.self.agenda
    /\ farthest_date' = r.self.farthest_date
    /\ earliest_date' = r.self.earliest_date

RECURSIVE CountTasks(_, _)
CountTasks(a, left) ==
    IF left = {}
      THEN 0
      ELSE LET d == CHOOSE e \in left : TRUE
           IN  Len(a[d]) + CountTasks(a, left \ {d})

\* the variables hold the Agenda object self
Holds(self) ==
    /\ agenda = self.agenda
    /\ farthest_date = self.farthest_date
    /\ earliest_date = self.earliest_date

\* Agenda(file_path) returned r
Made(r) == ~r.exc /\ Holds(r.self)

\* the variables hold the controller c, at its prompt
Runs(c) ==
    /\ Holds(c.self)
    /\ cur_menu = c.cur_menu
    /\ settings_list = c.settings_list
    /\ agenda_file = c.agenda_file
    /\ settings_file = c.settings_file
    /\ pc = "prompt"

\* the controller these operations do not run: as made where no file exists
ControllerIdle == Runs(ControllerInit(Self, NoFile, NoFile))

Init ==
    /\ today = FirstToday
    /\ \E file \in InitFiles : Made(AgendaInit(file, FirstToday))
    /\ ControllerIdle

InitDuplicates ==
    /\ today = FirstToday
    /\ \E file \in DuplicateFiles : Made(AgendaInit(file, FirstToday))
    /\ ControllerIdle

DoAddTask ==
    /\ CountTasks(agenda, Keys(agenda)) < MaxTasks
    /\ \E day \in Days, description \in Descriptions, status \in TaskStatus :
         Becomes(AddTask(Self, today, day, description, status))
    /\ UNCHANGED <<today, controller_vars>>

DoRemoveTask ==
    /\ \E day \in Days, task_index \in Indices :
         Becomes(RemoveTask(Self, day, task_index))
    /\ UNCHANGED <<today, controller_vars>>

DoModifyTask ==
    /\ \E day \in Days, task_index \in Indices, description \in Descriptions :
         Becomes(ModifyTask(Self, day, task_index, description))
    /\ UNCHANGED <<today, controller_vars>>

DoUpdateTaskStatus ==
    /\ \E day \in Days, task_index \in Indices, status \in TaskStatus :
         Becomes(UpdateTaskStatus(Self, day, task_index, status))
    /\ UNCHANGED <<today, controller_vars>>

DoRefreshTodayDate ==
    /\ Becomes(RefreshTodayDate(Self, today))
    /\ UNCHANGED <<today, controller_vars>>

\* the agenda is saved and an Agenda is made of the file written
DoSaveAndLoad ==
    /\ Becomes(AgendaInit(Save(Self), today))
    /\ UNCHANGED <<today, controller_vars>>

\* midnight passes
Tick ==
    /\ today < MaxClock
    /\ today' = today + 1
    /\ UNCHANGED <<agenda_vars, controller_vars>>

Next ==
    \/ DoAddTask
    \/ DoRemoveTask
    \/ DoModifyTask
    \/ DoUpdateTaskStatus
    \/ DoRefreshTodayDate
    \/ DoSaveAndLoad
    \/ Tick

Spec == Init /\ [][Next]_vars

\* the same operations on an Agenda made of a file with duplicate tasks
SpecDuplicates == InitDuplicates /\ [][Next]_vars

-----------------------------------------------------------------------------
(* The program: main() and the loop of go(), one input line at a time,     *)
(* within one day                                                          *)

\* the controller the variables hold
Controller == Ctl(Self, cur_menu, settings_list, agenda_file, settings_file)

\* the lines typed at the main prompt that add a task
AddLines == {"a today x y", "a now"}

\* the lines typed at the main prompt
MainLines ==
    AddLines
    \cup { "", "   ", "s", "sq", "q", "quit", "o", "o x", "vu", "vp", "vl", "help", "bogus", " q",
           "a", "a someday x", "a +x y", "a 13-45 x", "a 2025-1-3 x",
           "r today 0", "r +1 0", "r today", "r today x", "r today 9", "r today -1",
           "r 01-01 0", "r 2025-01-09 0",
           "m today 0", "m today 1", "m today 1 x y", "m today", "m today x z",
           "m today 9 z", "m 2025-01-09 0 z",
           "u today 0", "u row 0", "u today -1", "u today 9", "u 2025.01.01 0", "u today",
           "u today x", "u 2025-01-09 0" }

\* the lines typed at the settings prompt
SettingsMenuLines == {"", " ", "6", "3 9999999", "3 0", "3", "3 -1", "3 x", "7", "o"}

\* the answers typed to the quit confirmation
ConfirmationLines == {"y", "n", "", "yes"}

Goes(h) ==
    /\ agenda' = h.c.self.agenda
    /\ farthest_date' = h.c.self.farthest_date
    /\ earliest_date' = h.c.self.earliest_date
    /\ cur_menu' = h.c.cur_menu
    /\ settings_list' = h.c.settings_list
    /\ agenda_file' = h.c.agenda_file
    /\ settings_file' = h.c.settings_file
    /\ pc' = IF h.exc THEN "crashed"
             ELSE IF h.confirm THEN "confirm"
             ELSE IF h.ret THEN "quit"
             ELSE "prompt"
    /\ UNCHANGED today

\* go(): _handle_main_loop reads a line
MainLoopStep ==
    /\ pc = "prompt"
    /\ cur_menu # SETTINGS
    /\ \E command \in MainLines :
         /\ command \in AddLines => CountTasks(agenda, Keys(agenda)) < MaxTasks
         /\ Goes(HandleMainLoop(Controller, today, command))

\* go(): _handle_main_loop reads an answer to the quit confirmation
ConfirmationStep ==
    /\ pc = "confirm"
    /\ \E confirmation \in ConfirmationLines :
         Goes(QuitConfirmation(Controller, confirmation))

\* go(): _handle_settings_menu reads a line
SettingsMenuStep ==
    /\ pc = "prompt"
    /\ cur_menu = SETTINGS
    /\ \E command \in SettingsMenuLines :
         Goes(HandleSettingsMenu(Controller, command))

NextGo ==
    \/ MainLoopStep
    \/ ConfirmationStep
    \/ SettingsMenuStep

\* the agenda files the program is started on
GoFiles ==
    { NoFile,
      TextFile(DayBlock(0, <<Task("x y", IN_PROGRESS)>>)) }

\* main() on the agenda file: Agenda(AGENDA_PATH), then the controller
Main(file, r) == Then(r, LAMBDA self : Returned(ControllerInit(self, file, NoFile), <<>>))

\* main() returned r from the constructors and go() is at its first prompt
Started(r) == ~r.exc /\ Runs(r.self)

InitGo ==
    /\ today = FirstToday
    /\ \E file \in GoFiles : Started(Main(file, AgendaInit(file, FirstToday)))

SpecGo == InitGo /\ [][NextGo]_vars

-----------------------------------------------------------------------------
(* The program started on a settings file, its settings menu, and the      *)
(* program started again on the files it left.                             *)

\* the first k lines of a settings file with these names and value tokens
RECURSIVE SettingsText(_, _, _)
SettingsText(names, tokens, k) ==
    IF k = 0
      THEN ""
      ELSE SettingsText(names, tokens, k - 1) \o names[k] \o ": " \o tokens[k] \o "\n"

\* the tokens that settings_save writes for a list of values
TokensOf(values) == [i \in DOMAIN values |-> StrOf(values[i])]

\* the values the settings files hold
SettingsRows ==
    { << PyBool(TRUE), PyBool(FALSE), PyBool(TRUE), PyInt(12),
         PyBool(FALSE), PyBool(TRUE), PyBool(TRUE) >>,
      << PyBool(FALSE), PyBool(TRUE), PyInt(1), PyInt(0),
         PyBool(TRUE), PyBool(FALSE), PyBool(FALSE) >> }

\* value tokens that are neither True, False nor digits
BadTokens == {"true", "-1", "", "1.5"}

\* the names with the name at position p replaced by the next one
WrongNames(p) == [SettingsNames EXCEPT ![p] = SettingsNames[(p % Len(SettingsNames)) + 1]]

\* settings files of k well-formed lines in the order of the names
ShortSettingsFiles ==
    { [file |-> TextFile(SettingsText(SettingsNames, TokensOf(row), k)), row |-> row, k |-> k] :
        row \in SettingsRows, k \in 0 .. Len(SettingsNames) }

\* settings files with a wrong name, a bad value token or a line too many
BrokenSettingsFiles ==
    { TextFile(SettingsText(WrongNames(pk[1]), TokensOf(row), pk[2])) :
        row \in SettingsRows,
        pk \in {x \in (1 .. 7) \X (1 .. 7) : x[1] <= x[2]} }
    \cup { TextFile(SettingsText(SettingsNames, [TokensOf(row) EXCEPT ![pk[1]] = bad], pk[2])) :
             row \in SettingsRows, bad \in BadTokens,
             pk \in {x \in (1 .. 7) \X (1 .. 7) : x[1] <= x[2]} }
    \cup { TextFile(SettingsText(SettingsNames, TokensOf(row), 7)
                      \o SettingsNames[1] \o ": True\n") : row \in SettingsRows }

\* the settings files the program is started on
SettingsFiles == {case.file : case \in ShortSettingsFiles} \cup BrokenSettingsFiles

\* the controller as __init__ leaves it, at the main prompt
Constructed(c) == Handled(c, FALSE, FALSE, FALSE, FALSE, FALSE)

InitSettings ==
    /\ today = FirstToday
    /\ \E file \in SettingsFiles :
         Runs(ControllerInit(AgendaInit(NoFile, FirstToday).self, NoFile, file))

\* go(): the 'o' command at the main prompt
OpenSettingsStep ==
    /\ pc = "prompt"
    /\ cur_menu # SETTINGS
    /\ Goes(HandleMainLoop(Controller, today, "o"))

\* main() again, on the files as they are
RestartStep ==
    /\ pc \in {"prompt", "crashed"}
    /\ Goes(Constructed(ControllerInit(AgendaInit(agenda_file, today).self,
                                       agenda_file, settings_file)))

NextSettings ==
    \/ OpenSettingsStep
    \/ SettingsMenuStep
    \/ RestartStep

SpecSettings == InitSettings /\ [][NextSettings]_vars

-----------------------------------------------------------------------------
(* The program at its main prompt around the ends of months and years,     *)
(* given dates written in short.                                           *)

\* the days the clock shows: around 29 February, 1 June and 31 December
ClockDays ==
    (DateOf(2024, 2, 27) .. DateOf(2024, 3, 2))
      \cup (DateOf(2025, 5, 30) .. DateOf(2025, 6, 2))
      \cup (DateOf(2025, 12, 29) .. DateOf(2025, 12, 31))

\* the lines typed: 'a' commands on dates written MM-DD or as a word
DateLines == {"a 01-05 x", "a 2/29 x", "a 6.1 x", "a 12-31 x", "a 02-30 x", "a tomorrow x", "a tom x"}

InitDates ==
    /\ today \in ClockDays
    /\ Started(Main(NoFile, AgendaInit(NoFile, today)))

\* the clock moves on to the next day
ClockTick ==
    /\ today + 1 \in ClockDays
    /\ today' = today + 1
    /\ UNCHANGED <<agenda_vars, controller_vars>>

\* go(): _handle_main_loop reads an 'a' command
DateStep ==
    /\ pc = "prompt"
    /\ cur_menu # SETTINGS
    /\ Cardinality({d \in Keys(agenda) : agenda[d] # <<>>}) < MaxTasks
    /\ \E command \in DateLines : Goes(HandleMainLoop(Controller, today, command))

NextDates ==
    \/ ClockTick
    \/ DateStep

SpecDates == InitDates /\ [][NextDates]_vars
(* Properties *)

SetMax(S) == CHOOSE x \in S : \A y \in S : y <= x

SetMin(S) == CHOOSE x \in S : \A y \in S : x <= y

\* the descriptions of a day's tasks
DescriptionsOf(tasks) == {tasks[i][1] : i \in DOMAIN tasks}

\* a list with the element at Python index i deleted
WithoutIndex(l, i) == SubSeq(l, 1, i) \o SubSeq(l, i + 2, Len(l))

\* the days that hold at least one task
DaysWithTasks(a) == {d \in Keys(a) : a[d] # <<>>}

\* C1: every date from earliest_date to farthest_date is a key of the agenda.
C1_Contiguity ==
    \A d \in Days : (earliest_date <= d /\ d <= farthest_date) => HasDay(agenda, d)

\* C2 as stated: a successful add_task on a day after farthest_date fills the
\* untracked days in between with empty lists, tracks the day, and leaves
\* farthest_date equal to the day.
C2_FarthestIsDay ==
    \A day \in Days, description \in Descriptions, status \in TaskStatus :
      LET r == AddTask(Self, today, day, description, status)
      IN  (~r.exc /\ day > farthest_date) =>
            /\ \A d \in Days :
                 (farthest_date < d /\ d < day /\ ~HasDay(agenda, d)) =>
                   (HasDay(r.self.agenda, d) /\ r.self.agenda[d] = <<>>)
            /\ HasDay(r.self.agenda, day)
            /\ r.self.farthest_date = day

\* C2 amended: the same, with farthest_date left at the later of the day and
\* today (the refresh that ends add_task moves it on to today).
C2_ForwardExtension ==
    \A day \in Days, description \in Descriptions, status \in TaskStatus :
      LET r == AddTask(Self, today, day, description, status)
      IN  (~r.exc /\ day > farthest_date) =>
            /\ \A d \in Days :
                 (farthest_date < d /\ d < day /\ ~HasDay(agenda, d)) =>
                   (HasDay(r.self.agenda, d) /\ r.self.agenda[d] = <<>>)
            /\ HasDay(r.self.agenda, day)
            /\ r.self.farthest_date = (IF today > day THEN today ELSE day)

\* C2 witness: an add_task two or more days after farthest_date succeeds, over
\* an untracked day.
C2_Witness ==
    \E day \in Days, description \in Descriptions :
      /\ day > farthest_date + 1
      /\ \E d \in Days : farthest_date < d /\ d < day /\ ~HasDay(agenda, d)
      /\ ~AddTask(Self, today, day, description, NOT_STARTED).exc
      /\ AddTask(Self, today, day, description, NOT_STARTED).self.farthest_date = day

\* C3: a successful add_task on a day before earliest_date leaves every day
\* between the day and the old earliest_date tracked, and earliest_date equal
\* to the day.
C3_BackwardExtension ==
    \A day \in Days, description \in Descriptions, status \in TaskStatus :
      LET r == AddTask(Self, today, day, description, status)
      IN  (~r.exc /\ day < earliest_date) =>
            /\ \A d \in Days : (day < d /\ d < earliest_date) => HasDay(r.self.agenda, d)
            /\ r.self.earliest_date = day

\* no day holds two tasks with the same description
NoDuplicates(a) ==
    \A d \in Keys(a) : \A i, j \in DOMAIN a[d] : a[d][i][1] = a[d][j][1] => i = j

\* C4: no day ever holds two tasks with the same description; add_task raises
\* exactly when the description is already on that day, whatever the other
\* days hold.
C4_PerDayUniqueness ==
    /\ NoDuplicates(agenda)
    /\ \A day \in Days, description \in Descriptions, status \in TaskStatus :
         LET r == AddTask(Self, today, day, description, status)
         IN  /\ r.exc <=> description \in DescriptionsOf(GetTasks(Self, day))
             /\ NoDuplicates(r.self.agenda)

\* C4 witness: a description is on two days, where add_task raises on it, and
\* is accepted on a third day.
C4_Witness ==
    \E d1, d2, d3 \in Days, description \in Descriptions :
      /\ d1 # d2 /\ d3 # d1 /\ d3 # d2
      /\ description \in DescriptionsOf(GetTasks(Self, d1))
      /\ description \in DescriptionsOf(GetTasks(Self, d2))
      /\ AddTask(Self, today, d1, description, DONE).exc
      /\ ~AddTask(Self, today, d3, description, DONE).exc

C8_AddRemoveRoundTrip ==
    \A day \in Days, description \in Descriptions, status \in TaskStatus :
      description \notin DescriptionsOf(GetTasks(Self, day)) =>
        LET r1 == AddTask(Self, today, day, description, status)
            r2 == RemoveTask(r1.self, day, Len(GetTasks(r1.self, day)) - 1)
        IN  /\ ~r1.exc
            /\ ~r2.exc
            /\ r2.ret = Task(description, status)
            /\ GetTasks(r2.self, day) = GetTasks(Self, day)

\* C8 witness: a day that holds a task, and a description that is not on it.
C8_Witness ==
    \E day \in Days, description \in Descriptions :
      /\ GetTasks(Self, day) # <<>>
      /\ description \notin DescriptionsOf(GetTasks(Self, day))
      /\ ~AddTask(Self, today, day, description, DONE).exc

\* C9: remove_task with an index in range removes the task at that index and
\* returns it; the other tasks keep their order.
C9_RemovesAtIndex ==
    \A day \in Keys(agenda), task_index \in Indices :
      (0 <= task_index /\ task_index < Len(agenda[day])) =>
        LET r == RemoveTask(Self, day, task_index)
        IN  /\ ~r.exc
            /\ r.ret = agenda[day][task_index + 1]
            /\ r.self.agenda[day] = WithoutIndex(agenda[day], task_index)

\* the lines of the commands that change the agenda
IsItemLine(command) ==
    StrWords(command) # <<>> /\ StrWords(command)[1] \in {"a", "r", "m", "u"}

\* go() is at the main prompt
AtMainPrompt == pc = "prompt" /\ cur_menu = MAIN

\* the item commands typed, and an 'a' command on date.max
C5_Lines ==
    {command \in MainLines : IsItemLine(command)}
      \cup {"a " \o IsoFormat(DateMax) \o " x y"}

\* C5: an 'a', 'r', 'm' or 'u' command that raises leaves the agenda mapping,
\* earliest_date and farthest_date exactly as they were.
C5_FailingCommandKeepsAgenda ==
    AtMainPrompt =>
      \A command \in C5_Lines :
        HandleMainLoop(Controller, today, command).error
          => HandleMainLoop(Controller, today, command).c.self = Self

\* C6: no exception escapes _handle_main_loop or _handle_settings_menu,
\* whatever line is typed in either menu.
C6_NeverCrashes == pc # "crashed"

\* the order in which the statuses follow one another
C10_Cycle ==
    [s \in TaskStatus |->
       CASE s = NOT_STARTED -> IN_PROGRESS
         [] s = IN_PROGRESS -> DONE
         [] s = DONE -> NOT_STARTED]

\* the Agenda object self with the status of one task replaced
WithStatus(self, day, index, status) ==
    [self EXCEPT !.agenda[day][index + 1][2] = status]

\* the ways the 'u' command is given a day and an index
C10_DateWords == {"today", "now", "row", "+1", "1/3"} \cup {IsoFormat(d) : d \in Days}

C10_IndexWords == {"0", "1", "+1", "02"}

\* three 'u' commands h1, h2, h3 in a row on the task at index of day
C10_ThreeSteps(self, day, index, h1, h2, h3) ==
    /\ ~h1.error /\ ~h2.error /\ ~h3.error
    /\ h1.c.self = WithStatus(self, day, index, C10_Cycle[self.agenda[day][index + 1][2]])
    /\ h2.c.self =
         WithStatus(self, day, index, C10_Cycle[C10_Cycle[self.agenda[day][index + 1][2]]])
    /\ h3.c.self = self

\* the controller after one more 'u' command
C10_After(h, command) == HandleMainLoop(h.c, today, command)

\* C10: three 'u' commands in a row on a valid day and index take the task
\* through the cycle NOT_STARTED -> IN_PROGRESS -> DONE -> NOT_STARTED from
\* whichever status it has, back to that status, and change nothing else.
C10_StatusCycle ==
    AtMainPrompt =>
      \A date_string \in C10_DateWords, index_string \in C10_IndexWords :
        ( /\ ~ParseDate(date_string, today).exc
          /\ 0 <= IntOf(index_string)
          /\ IntOf(index_string) < Len(GetTasks(Self, ParseDate(date_string, today).ret)) )
        => C10_ThreeSteps(
             Self, ParseDate(date_string, today).ret, IntOf(index_string),
             HandleMainLoop(Controller, today, "u " \o date_string \o " " \o index_string),
             C10_After(HandleMainLoop(Controller, today,
                                      "u " \o date_string \o " " \o index_string),
                       "u " \o date_string \o " " \o index_string),
             C10_After(C10_After(HandleMainLoop(Controller, today,
                                                "u " \o date_string \o " " \o index_string),
                                 "u " \o date_string \o " " \o index_string),
                       "u " \o date_string \o " " \o index_string))

\* C10 witness: the first of today's two tasks has been taken to DONE by 'u'
\* commands, and one more 'u' command on it succeeds.
C10_Witness ==
    /\ AtMainPrompt
    /\ Len(GetTasks(Self, today)) = 2
    /\ GetTasks(Self, today)[1][2] = DONE
    /\ ~HandleMainLoop(Controller, today, "u today 0").error


\* C11: modify_task with the description the task already has, which no other
\* task of the day has, succeeds, returns that description and leaves the
\* day's list as it was.
C11_RenameToSame ==
    \A day \in Keys(agenda), task_index \in Indices :
      ( /\ 0 <= task_index /\ task_index < Len(agenda[day])
        /\ \A j \in DOMAIN agenda[day] :
             j # task_index + 1 => agenda[day][j][1] # agenda[day][task_index + 1][1] )
      => /\ ~ModifyTask(Self, day, task_index, agenda[day][task_index + 1][1]).exc
         /\ ModifyTask(Self, day, task_index, agenda[day][task_index + 1][1]).ret
              = <<agenda[day][task_index + 1][1]>>
         /\ ModifyTask(Self, day, task_index, agenda[day][task_index + 1][1]).self.agenda[day]
              = agenda[day]

\* C12: when today is after farthest_date, refresh_today_date leaves today
\* tracked, farthest_date equal to today, and every day between the previous
\* farthest_date and today tracked with an empty list.
C12_RefreshFillsRollOver ==
    today > farthest_date =>
      /\ ~RefreshTodayDate(Self, today).exc
      /\ HasDay(RefreshTodayDate(Self, today).self.agenda, today)
      /\ RefreshTodayDate(Self, today).self.farthest_date = today
      /\ \A d \in Days :
           (farthest_date < d /\ d < today) =>
             /\ HasDay(RefreshTodayDate(Self, today).self.agenda, d)
             /\ RefreshTodayDate(Self, today).self.agenda[d] = <<>>

\* refresh_today_date called a second time, the clock standing still
RefreshTwice(r, now) == IF r.exc THEN r ELSE RefreshTodayDate(r.self, now)

\* C13: two refresh_today_date in succession leave the agenda mapping,
\* earliest_date and farthest_date as one does.
C13_RefreshIdempotent ==
    RefreshTwice(RefreshTodayDate(Self, today), today).self
      = RefreshTodayDate(Self, today).self

\* C13 witness: the clock has passed farthest_date and today is not tracked,
\* so that the first refresh_today_date changes the agenda.
C13_Witness ==
    /\ today > farthest_date
    /\ ~HasDay(agenda, today)
    /\ RefreshTodayDate(Self, today).self # Self
    /\ ~RefreshTodayDate(Self, today).exc

\* earliest_date <= today <= farthest_date in the agenda that r leaves
TodayInRange(r, now) ==
    r.self.earliest_date <= now /\ now <= r.self.farthest_date

\* C14: after refresh_today_date, and after every add_task that succeeds,
\* earliest_date <= today <= farthest_date.
C14_TodayInRange ==
    /\ ~RefreshTodayDate(Self, today).exc
    /\ TodayInRange(RefreshTodayDate(Self, today), today)
    /\ \A day \in Days, description \in Descriptions, status \in TaskStatus :
         ~AddTask(Self, today, day, description, status).exc
           => TodayInRange(AddTask(Self, today, day, description, status), today)

\* C14 witness: the clock has passed farthest_date, the agenda holds a task
\* before today, and an add_task before earliest_date succeeds.
C14_Witness ==
    /\ today > farthest_date
    /\ \E d \in DaysWithTasks(agenda) : d < today
    /\ \E day \in Days :
         /\ day < earliest_date
         /\ ~AddTask(Self, today, day, "x y", NOT_STARTED).exc

\* go() is at the settings prompt
AtSettingsPrompt == pc = "prompt" /\ cur_menu = SETTINGS

\* the line is an 'o' command
IsOpenSettingsLine(command) ==
    /\ command \notin {"", "sq", "quit", "q"}
    /\ StrWords(command) # <<>>
    /\ StrWords(command)[1] = "o"

\* C15: a controller starts in MAIN; at the main prompt the 'o' command, and
\* no other line, moves to SETTINGS; at the settings prompt the empty line,
\* and no other line, moves to MAIN, with the settings file then holding the
\* current settings; no answer to the quit confirmation changes the menu.
C15_MenuTransitions ==
    /\ ControllerInit(Self, agenda_file, settings_file).cur_menu = MAIN
    /\ AtMainPrompt =>
         \A command \in MainLines :
           HandleMainLoop(Controller, today, command).c.cur_menu
             = (IF IsOpenSettingsLine(command) THEN SETTINGS ELSE MAIN)
    /\ pc = "confirm" =>
         \A confirmation \in ConfirmationLines :
           QuitConfirmation(Controller, confirmation).c.cur_menu = cur_menu
    /\ AtSettingsPrompt =>
         \A command \in SettingsMenuLines :
           /\ HandleSettingsMenu(Controller, command).c.cur_menu
                = (IF command = "" THEN MAIN ELSE SETTINGS)
           /\ command = "" =>
                HandleSettingsMenu(Controller, command).c.settings_file
                  = TextFile(SettingsLines(settings_list, 1))

\* C15 witness: the settings menu has been left once and entered again, and
\* the settings have been changed since the settings file was written.
C15_Witness ==
    /\ AtSettingsPrompt
    /\ settings_file.exists
    /\ settings_file # TextFile(SettingsLines(settings_list, 1))
    /\ HandleSettingsMenu(Controller, "").c.cur_menu = MAIN

\* the handler h ends the loop of go(): it returns True, or an exception
\* escapes it
EndsLoop(h) == h.ret \/ h.exc

\* C16: the loop ends only at the main prompt, on 'sq' with the agenda file
\* holding the agenda saved, or on the answer 'y' to the confirmation that
\* 'q' and 'quit' ask for, with nothing written; any answer but 'y' and 'n'
\* asks again, and 'n' goes back to the main prompt with nothing changed.
C16_QuitProtocol ==
    /\ pc = "quit" => cur_menu = MAIN
    /\ pc # "crashed"
    /\ AtMainPrompt =>
         \A command \in MainLines :
           /\ EndsLoop(HandleMainLoop(Controller, today, command)) =>
                /\ command = "sq"
                /\ HandleMainLoop(Controller, today, command).c.agenda_file
                     = Save(HandleMainLoop(Controller, today, command).c.self)
           /\ HandleMainLoop(Controller, today, command).confirm <=> command \in {"q", "quit"}
           /\ command \in {"q", "quit"} => HandleMainLoop(Controller, today, command).c = Controller
    /\ AtSettingsPrompt =>
         \A command \in SettingsMenuLines :
           ~EndsLoop(HandleSettingsMenu(Controller, command))
    /\ pc = "confirm" =>
         \A confirmation \in ConfirmationLines :
           /\ QuitConfirmation(Controller, confirmation).c = Controller
           /\ ~QuitConfirmation(Controller, confirmation).exc
           /\ QuitConfirmation(Controller, confirmation).confirm <=> confirmation \notin {"y", "n"}
           /\ QuitConfirmation(Controller, confirmation).ret <=> confirmation = "y"

\* the autosave setting is on
AutosaveOn == Truthy(settings_list[7])

\* the line is an 's' or 'sq' command
IsSaveLine(command) ==
    command = "sq" \/ (StrWords(command) # <<>> /\ StrWords(command)[1] = "s")

\* C17 for the handler h that a line at the main prompt runs
C17_AfterLine(command, h) ==
    /\ (AutosaveOn /\ IsItemLine(command) /\ ~h.error /\ ~h.exc) =>
         h.c.agenda_file = Save(h.c.self)
    /\ (~AutosaveOn /\ ~IsSaveLine(command)) => h.c.agenda_file = agenda_file
    /\ (h.error \/ h.exc) => h.c.agenda_file = agenda_file

\* C17: with autosave on, the agenda file is the saved agenda after every
\* 'a', 'r', 'm' or 'u' command that succeeds; with autosave off only 's' and
\* 'sq' change the agenda file; a command that fails never changes it, and
\* neither do the settings menu and the quit confirmation.
C17_Autosave ==
    /\ AtMainPrompt =>
         \A command \in MainLines :
           C17_AfterLine(command, HandleMainLoop(Controller, today, command))
    /\ AtSettingsPrompt =>
         \A command \in SettingsMenuLines :
           HandleSettingsMenu(Controller, command).c.agenda_file = agenda_file
    /\ pc = "confirm" =>
         \A confirmation \in ConfirmationLines :
           QuitConfirmation(Controller, confirmation).c.agenda_file = agenda_file

\* C17 witness: autosave is on, the agenda file is not the saved agenda, and
\* an 'r' command succeeds and another fails.
C17_Witness ==
    /\ AtMainPrompt
    /\ AutosaveOn
    /\ agenda_file # Save(Self)
    /\ ~HandleMainLoop(Controller, today, "r today 0").error
    /\ HandleMainLoop(Controller, today, "r today 0").c.agenda_file # agenda_file
    /\ HandleMainLoop(Controller, today, "r today 9").error

\* C18: started on a settings file of k < 7 (or all 7) well-formed lines in
\* the order of the names, the controller holds the k values of the file and
\* then the defaults; started on a file with a wrong name, a bad value token
\* or a line too many, it holds the defaults, all of them.
C18_SettingsLoad ==
    /\ \A case \in ShortSettingsFiles :
         settings_file = case.file =>
           ControllerInit(Self, agenda_file, settings_file).settings_list
             = SubSeq(case.row, 1, case.k)
                 \o SubSeq(SettingsDefaults, case.k + 1, Len(SettingsDefaults))
    /\ settings_file \in BrokenSettingsFiles =>
         ControllerInit(Self, agenda_file, settings_file).settings_list = SettingsDefaults

\* C18 witness: the program has started on a file of three lines and holds
\* its three values, not the defaults, followed by the defaults.
C18_Witness ==
    \E case \in ShortSettingsFiles :
      /\ case.k = 3
      /\ settings_file = case.file
      /\ SubSeq(settings_list, 1, 3) = SubSeq(case.row, 1, 3)
      /\ SubSeq(settings_list, 1, 3) # SubSeq(SettingsDefaults, 1, 3)
      /\ SubSeq(settings_list, 4, 7) = SubSeq(SettingsDefaults, 4, 7)

\* settings lines that are errors: unknown tokens, setting 3 without an
\* argument, setting 3 with an argument that is not a string of digits
C19_ErrorLines ==
    {"7", "x", "o", "-1", "10", "3"}
      \cup {"3 " \o bad : bad \in {"-1", "x", "+5", "1.5", "1_0", "0x1"}}

\* the integers given to setting 3
C19_Limits == {0, 5, 12, 9999999}

\* the settings that are toggled (Python indices)
C19_Toggles == {0, 1, 2, 4, 5, 6}

\* C19: at the settings prompt a line that is an error changes no setting and
\* leaves the menu; setting 3 with a string of digits stores its integer at
\* index 3 and a toggle flips the setting it names, all else unchanged.
C19_SettingsMenuErrors ==
    AtSettingsPrompt =>
      /\ \A command \in C19_ErrorLines :
           /\ HandleSettingsMenu(Controller, command).c = Controller
           /\ ~HandleSettingsMenu(Controller, command).exc
           /\ ~HandleSettingsMenu(Controller, command).ret
           /\ \/ HandleSettingsMenu(Controller, command).error
              \/ HandleSettingsMenu(Controller, command).invalid
      /\ \A n \in C19_Limits, zeros \in {"", "00"} :
           HandleSettingsMenu(Controller, "3 " \o zeros \o StrOfInt(n)).c
             = [Controller EXCEPT !.settings_list[4] = PyInt(n)]
      /\ \A i \in C19_Toggles :
           HandleSettingsMenu(Controller, StrOfInt(i)).c
             = [Controller EXCEPT
                  !.settings_list[i + 1] = PyBool(settings_list[i + 1].n = 0)]

\* C19 witness: at the settings prompt, setting 3 and the autosave setting
\* have been changed by commands, and a setting to toggle holds an integer.
C19_Witness ==
    /\ AtSettingsPrompt
    /\ settings_list[4] = PyInt(9999999)
    /\ settings_list[7] = PyBool(FALSE)
    /\ \E i \in C19_Toggles : settings_list[i + 1] = PyInt(1)
    /\ HandleSettingsMenu(Controller, "3 -1").error

\* the dates that ranges start on: the days of the operations, the dates the
\* agenda keeps, and the ends of the calendar
C20_Starts == Days \cup {today, earliest_date, farthest_date, DateMin, DateMax}

\* the range r goes from start_date to end_date a day at a time
C20_IsRange(r, start_date, end_date) ==
    /\ ~r.exc
    /\ r.ret[1] = start_date
    /\ r.ret[Len(r.ret)] = end_date
    /\ Len(r.ret) = (IF start_date <= end_date THEN end_date - start_date
                                                ELSE start_date - end_date) + 1
    /\ \A i \in 1 .. Len(r.ret) - 1 :
         r.ret[i + 1] - r.ret[i] = (IF start_date <= end_date THEN 1 ELSE -1)

\* C20: date_range_inclusive(start, end) returns the dates from start to end,
\* both included, going up a day at a time when start <= end and down a day
\* at a time otherwise.
C20_DateRange ==
    \A start_date \in C20_Starts, span \in (0 - MaxDay) .. MaxDay :
      (DateMin <= start_date + span /\ start_date + span <= DateMax) =>
        C20_IsRange(DateRangeInclusive(start_date, start_date + span),
                    start_date, start_date + span)

\* C20 witness: the agenda starts two days or more before today and ends
\* after it, the ranges that the views ask for.
C20_Witness ==
    /\ earliest_date + 2 <= today
    /\ today < farthest_date
    /\ Len(DateRangeInclusive(today, earliest_date).ret) >= 3
    /\ Len(DateRangeInclusive(today, farthest_date).ret) >= 2
    /\ DateRangeInclusive(today, today).ret = <<today>>

-----------------------------------------------------------------------------
(* Dates as the user writes them *)

\* the months and days of the month written, and the marks written between them
C21_Months == {1, 2, 6, 12}

C21_Days == {1, 5, 28, 29, 30, 31}

C21_Separators == {"-", "/", "."}

\* month and day written with two digits each, or as they are
C21_Token(m, d, sep, padded) ==
    IF padded
      THEN ZeroPad(ToString(m), 2) \o sep \o ZeroPad(ToString(d), 2)
      ELSE ToString(m) \o sep \o ToString(d)

\* r is the date m-d of the current year when that is today or later, and of
\* the next year otherwise
C21_SoonestOf(r, m, d) ==
    /\ ~r.exc
    /\ r.ret >= today
    /\ r.ret = (IF DateOf(YearOf(today), m, d) >= today
                  THEN DateOf(YearOf(today), m, d)
                  ELSE DateOf(YearOf(today) + 1, m, d))

\* C21: for every month and day that some year has, written MM-DD,
\* _parse_date returns that date in the current year when it is today or
\* later and in the next year when it is before today, never a date before
\* today.
C21_EveryMonthDay ==
    \A m \in C21_Months, d \in C21_Days, sep \in C21_Separators, padded \in BOOLEAN :
      d <= DaysInMonthOf(2024, m) =>
        C21_SoonestOf(ParseDate(C21_Token(m, d, sep, padded), today), m, d)

\* tokens of every form: the words, days from today, dates in full and as
\* MM-DD, and tokens of no recognised form
C22_Tokens ==
    {"today", "now", "tomorrow", "+3", "+0", "1+2", "+x", "2025-06-01", "2025/6/1",
     "06-01", "6.1", "1-2-3-4", "x", "20250601", "Today", "tomorrows",
     "tom", "row", "o"}

\* the number of parts of a written date
C22_Parts(tok) == Len(StrSplit(StrJoin("-", StrSplit(StrJoin("-", StrSplit(tok, "/")), ".")), "-"))

\* r is what the form of tok allows
C22_AsItsForm(tok, r) ==
    IF tok \in {"today", "now"}
      THEN r = Value(today)
      ELSE IF tok = "tomorrow"
             THEN r = Value(today + 1)
             ELSE IF StrContains(tok, "+")
                    THEN \/ r.exc
                         \/ \E n \in 0 .. 3 : r = Value(today + n)
                    ELSE IF C22_Parts(tok) \in {2, 3}
                           THEN r.exc \/ r.ret \in DateMin .. DateMax
                           ELSE r.exc

\* C22: _parse_date gives today for exactly 'today' and 'now', today + 1 for
\* exactly 'tomorrow', today + N for a token with a '+', a calendar date for
\* a written date of 2 or 3 parts, and fails on every other token.
C22_OnlyRecognisedForms ==
    \A tok \in C22_Tokens : C22_AsItsForm(tok, ParseDate(tok, today))

-----------------------------------------------------------------------------
(* The range of the agenda *)

\* the days given to the operations: the days of the operations and the
\* days next to the ends of the range
C23_Days == Days \cup {earliest_date - 1, earliest_date, farthest_date, farthest_date + 1}

\* the operation that gave r left earliest_date where it was or earlier and
\* farthest_date where it was or later, whether it returned or raised
C23_NoShrink(r) ==
    /\ r.self.earliest_date <= earliest_date
    /\ r.self.farthest_date >= farthest_date

\* C23: whatever operations and clock advances came before, add_task,
\* remove_task, modify_task, update_task_status and refresh_today_date
\* never move earliest_date to a later date nor farthest_date to an earlier
\* one; removing the only task of the earliest or of the latest day keeps
\* both where they were.
C23_RangeMonotone ==
    /\ \A day \in C23_Days, description \in Descriptions, status \in TaskStatus :
         C23_NoShrink(AddTask(Self, today, day, description, status))
    /\ \A day \in C23_Days, task_index \in Indices :
         /\ C23_NoShrink(RemoveTask(Self, day, task_index))
         /\ \A status \in TaskStatus :
              C23_NoShrink(UpdateTaskStatus(Self, day, task_index, status))
         /\ \A description \in Descriptions :
              C23_NoShrink(ModifyTask(Self, day, task_index, description))
    /\ \A now \in today .. MaxClock : C23_NoShrink(RefreshTodayDate(Self, now))
    /\ \A day \in {earliest_date, farthest_date} :
         (HasDay(agenda, day) /\ Len(agenda[day]) = 1) =>
           /\ ~RemoveTask(Self, day, 0).exc
           /\ RemoveTask(Self, day, 0).self.earliest_date = earliest_date
           /\ RemoveTask(Self, day, 0).self.farthest_date = farthest_date

\* C23 witness: the only task of the earliest day, a day before the first
\* today, and the only task of the latest day, a day after today, have been
\* removed, and the range still goes from the one to the other.
C23_Witness ==
    /\ earliest_date < FirstToday
    /\ today < farthest_date
    /\ HasDay(agenda, earliest_date)
    /\ HasDay(agenda, farthest_date)
    /\ agenda[earliest_date] = <<>>
    /\ agenda[farthest_date] = <<>>

-----------------------------------------------------------------------------
(* What the operations leave alone *)

\* descriptions given to modify_task: those of the operations and one that
\* no task has
C24_Descriptions == Descriptions \cup {"z"}

\* the object self is the agenda of the state but for the task list of day
C24_OnlyDayChanged(self, day) ==
    /\ Keys(self.agenda) = Keys(agenda)
    /\ \A d \in Keys(agenda) \ {day} : self.agenda[d] = agenda[d]
    /\ self.earliest_date = earliest_date
    /\ self.farthest_date = farthest_date

\* the list new is the list old but for the task at Python index task_index,
\* which is task
C24_OnlyTaskChanged(new, old, task_index, task) ==
    /\ Len(new) = Len(old)
    /\ new[task_index + 1] = task
    /\ \A j \in DOMAIN old \ {task_index + 1} : new[j] = old[j]

\* C24: a modify_task that succeeds replaces the description of the task at
\* the index, keeps its status and place, and returns the prior description;
\* an update_task_status that succeeds replaces its status, keeps its
\* description and place, and returns the prior status; both leave the other
\* tasks of the day, the other days, the set of days, earliest_date and
\* farthest_date as they were.
C24_SingleTaskMutators ==
    \A day \in C23_Days, task_index \in Indices :
      /\ \A description \in C24_Descriptions :
           LET r == ModifyTask(Self, day, task_index, description)
           IN  ~r.exc =>
                 /\ C24_OnlyDayChanged(r.self, day)
                 /\ C24_OnlyTaskChanged(r.self.agenda[day], agenda[day], task_index,
                                        Task(description, agenda[day][task_index + 1][2]))
                 /\ r.ret = <<agenda[day][task_index + 1][1]>>
      /\ \A status \in TaskStatus :
           LET r == UpdateTaskStatus(Self, day, task_index, status)
           IN  ~r.exc =>
                 /\ C24_OnlyDayChanged(r.self, day)
                 /\ C24_OnlyTaskChanged(r.self.agenda[day], agenda[day], task_index,
                                        Task(agenda[day][task_index + 1][1], status))
                 /\ r.ret = <<agenda[day][task_index + 1][2]>>

\* C24 witness: a day holds two tasks and other days are stored; the second
\* task of that day is given a new description, and a new status.
C24_Witness ==
    \E day, other \in Keys(agenda) :
      /\ day # other
      /\ Len(agenda[day]) = 2
      /\ ~ModifyTask(Self, day, 1, "z").exc
      /\ ModifyTask(Self, day, 1, "z").self.agenda[day][2][1] = "z"
      /\ \E status \in TaskStatus :
           /\ status # agenda[day][2][2]
           /\ UpdateTaskStatus(Self, day, 1, status).self.agenda[day][2][2] = status

\* C25: an add_task that succeeds leaves the day's list as it was with
\* (description, status) appended: the tasks before it keep their places,
\* descriptions and statuses and the list is one longer; every other day
\* stored before is still stored, with the task list it had.
C25_AddAppends ==
    \A day \in C23_Days, description \in C24_Descriptions, status \in TaskStatus :
      LET r == AddTask(Self, today, day, description, status)
      IN  ~r.exc =>
            /\ HasDay(r.self.agenda, day)
            /\ r.self.agenda[day] = Append(GetTasks(Self, day), Task(description, status))
            /\ Len(r.self.agenda[day]) = Len(GetTasks(Self, day)) + 1
            /\ \A d \in Keys(agenda) \ {day} :
                 /\ HasDay(r.self.agenda, d)
                 /\ r.self.agenda[d] = agenda[d]

\* C25 witness: a task is added to a day that holds one, and a task is
\* added after the latest day while a day between today and the latest day
\* holds a task.
C25_Witness ==
    /\ \E day \in Keys(agenda) :
         /\ agenda[day] # <<>>
         /\ ~AddTask(Self, today, day, "z", DONE).exc
         /\ Len(AddTask(Self, today, day, "z", DONE).self.agenda[day]) = Len(agenda[day]) + 1
    /\ \E d \in Keys(agenda) :
         /\ today <= d
         /\ d < farthest_date
         /\ agenda[d] # <<>>
         /\ ~AddTask(Self, today, farthest_date + 1, "z", DONE).exc

-----------------------------------------------------------------------------
(* The two menus *)

\* the lines typed at either prompt
C26_Lines == MainLines \cup SettingsMenuLines

\* C26: at the settings prompt no line changes the agenda or the agenda
\* file; at the main prompt, and at the quit confirmation, no line changes
\* a setting or the settings file.
C26_MenuIsolation ==
    /\ AtSettingsPrompt =>
         \A command \in C26_Lines :
           /\ HandleSettingsMenu(Controller, command).c.self = Self
           /\ HandleSettingsMenu(Controller, command).c.agenda_file = agenda_file
    /\ AtMainPrompt =>
         \A command \in C26_Lines :
           /\ HandleMainLoop(Controller, today, command).c.settings_list = settings_list
           /\ HandleMainLoop(Controller, today, command).c.settings_file = settings_file
    /\ pc = "confirm" =>
         \A confirmation \in ConfirmationLines :
           /\ QuitConfirmation(Controller, confirmation).c.settings_list = settings_list
           /\ QuitConfirmation(Controller, confirmation).c.settings_file = settings_file

\* C26 witness: the settings menu is open for the second time or later, with
\* settings that are not the defaults and not those of the settings file,
\* and with an agenda that was saved and has been changed since.
C26_Witness ==
    /\ AtSettingsPrompt
    /\ settings_file.exists
    /\ settings_list # SettingsDefaults
    /\ settings_file # TextFile(SettingsLines(settings_list, 1))
    /\ agenda_file.exists
    /\ agenda_file # Save(Self)
    /\ HandleSettingsMenu(Controller, "").c.settings_file # settings_file
    /\ HandleSettingsMenu(Controller, "").c.agenda_file = agenda_file

-----------------------------------------------------------------------------
(* The range and the days stored *)

\* every day stored in the object self is within its range, and both ends
\* of the range are stored
C27_Tight(self) ==
    /\ \A d \in Keys(self.agenda) : self.earliest_date <= d /\ d <= self.farthest_date
    /\ HasDay(self.agenda, self.earliest_date)
    /\ HasDay(self.agenda, self.farthest_date)

\* the days given to add_task: those in and next to the range, and date.max
C27_Days == C23_Days \cup {DateMax}

\* C27: after load and any operations and clock advances, and after any
\* further add_task, every day stored is between earliest_date and
\* farthest_date, and both of these are stored.
C27_BoundsTight ==
    /\ C27_Tight(Self)
    /\ \A day \in C27_Days, description \in Descriptions, status \in TaskStatus :
         C27_Tight(AddTask(Self, today, day, description, status).self)

\* every day from now to the latest day of the object self is stored
C28_ForwardFrom(self, now) == \A d \in now .. self.farthest_date : HasDay(self.agenda, d)

\* the operation that gave r, when it returned, left every day from today on
\* stored
C28_Forward(r) == ~r.exc => C28_ForwardFrom(r.self, today)

\* C28: whatever operations and clock advances came before, every day from
\* today to farthest_date is stored just after an Agenda is loaded (from the
\* files the program starts on, and from the file a save has written), just
\* after refresh_today_date, and just after an add_task that succeeds.
C28_ForwardContiguity ==
    /\ \A file \in InitFiles \cup {Save(Self)} : C28_Forward(AgendaInit(file, today))
    /\ C28_Forward(RefreshTodayDate(Self, today))
    /\ \A day \in C23_Days, description \in C24_Descriptions, status \in TaskStatus :
         C28_Forward(AddTask(Self, today, day, description, status))

\* C28 witness: the agenda stores the days from today to a latest day two
\* days or more after it, lacks a day before today, and is as
\* refresh_today_date leaves it.
C28_Witness ==
    /\ today + 1 < farthest_date
    /\ \E d \in earliest_date .. today : ~HasDay(agenda, d)
    /\ C28_ForwardFrom(Self, today)
    /\ agenda[today + 1] = <<>>
    /\ ~RefreshTodayDate(Self, today).exc
    /\ RefreshTodayDate(Self, today).self = Self

-----------------------------------------------------------------------------
(* The settings *)

\* C29: started on any settings file, and after any settings commands,
\* settings_list has 7 entries, the entry at index 3 is an integer that is
\* not negative, and every other entry is a boolean.
C29_SettingsKinds ==
    /\ Len(settings_list) = 7
    /\ settings_list[4].kind = "int"
    /\ settings_list[4].n >= 0
    /\ \A i \in (1 .. 7) \ {4} : settings_list[i].kind = "bool"

\* the controller c holds the settings of the state, read from the 7 lines
\* of its settings file
C30_ReadBack(c, r) ==
    /\ Len(ReadLines(c.settings_file.text)) = 7
    /\ ~r.exc
    /\ r.self.settings_list = settings_list
    /\ ControllerInit(Self, agenda_file, c.settings_file).settings_list = settings_list

\* C30: whatever settings the settings menu has left, settings_save followed
\* by _load_saved_settings on the file written gives the same 7 values in
\* the same order, none of them taken from the defaults.
C30_SettingsRoundTrip ==
    /\ ~SettingsSave(Controller).exc
    /\ C30_ReadBack(SettingsSave(Controller).self,
                    LoadSavedSettings(SettingsSave(Controller).self))

\* C30 witness: at the settings prompt, settings changed by commands, a
\* day limit of several digits among them, are not those of the settings
\* file nor the defaults, and the empty line writes them.
C30_Witness ==
    /\ AtSettingsPrompt
    /\ settings_list[4] = PyInt(9999999)
    /\ \E i \in {1, 2, 3, 5, 6, 7} : settings_list[i] = PyBool(TRUE)
    /\ settings_file.exists
    /\ settings_file # SettingsSave(Controller).self.settings_file
    /\ HandleSettingsMenu(Controller, "").c.settings_file
         = SettingsSave(Controller).self.settings_file
    /\ LoadSavedSettings(SettingsSave(Controller).self).self.settings_list # SettingsDefaults
====
